---- MODULE Spec2Model ----
(***************************************************************************)
(* Model of src/LiquidGlassDocViewer.tsx: the DOCX viewer's normalization, *)
(* pagination, annotation store, export assembler and ingestion.           *)
(*                                                                         *)
(* Strings of the program are sequences of one-character tokens, so that   *)
(* trimming, splitting, tag stripping and key formatting are computed and  *)
(* not assumed.  A token written with several letters ("BULLET", "GEM",    *)
(* "SPAN") stands for one character, or for a run of characters that holds *)
(* no whitespace and no angle bracket.                                     *)
(***************************************************************************)
EXTENDS Integers, Sequences, FiniteSets, TLC

VARIABLES
    documents,        \* useState<ParsedDocument[]>            (line 164)
    currentDocId,     \* useState<string | null>               (line 165)
    highlightsByDoc,  \* useState<Record<string, HighlightsState>> (line 166)
    tasks,            \* the readFiles calls suspended at an await (lines 312-326)
    uidSeq,           \* number of conversions that have drawn ids with uid()
    lastOp,           \* history: the handler or continuation that ran last
    copySuccess,      \* useState(false)                       (line 171)
    pendingWrites,    \* the exportHighlights calls suspended at line 248
    textIn,           \* function run: the text given to a text function
    textOut,          \* function run: what the function returned
    pipeHtml,         \* pipeline run: the converter's HTML given to docxToElements
    pipeOut,          \* pipeline run: the list the walk emitted (line 93)
    elems,            \* pipeline run: the element list in hand
    pageList,         \* pipeline run: the pages returned by splitElementsIntoPages
    stage             \* pipeline run: "off", "html", "walked", "normalized", "pagedRaw", "paged"

vars == <<documents, currentDocId, highlightsByDoc, tasks, uidSeq, lastOp,
          copySuccess, pendingWrites,
          pipeHtml, pipeOut, elems, pageList, stage, textIn, textOut>>

clipVars == <<copySuccess, pendingWrites>>

appVars == <<documents, currentDocId, highlightsByDoc, tasks, uidSeq, lastOp, clipVars>>

textVars == <<textIn, textOut>>

pipeVars == <<pipeHtml, pipeOut, elems, pageList, stage, textVars>>

(***************************************************************************)
(* Bounds of the model.                                                    *)
(***************************************************************************)
\* most body children of the HTML of a pipeline run
MaxLen == 4
\* most files in one file selection or drop
MaxBatch == 2
\* most conversions (documents ever created) in one run of the application
MaxConversions == 2
\* most exportHighlights calls suspended at their clipboard write
MaxPendingWrites == 1
\* most characters of a text given to splitIntoSentences in a function run
MaxText == 5
\* most letters of a text given to looksLikeHeadingText in a function run
MaxHeadingLetters == 72
\* most characters of the innerHTML of a p or div node in a function run
MaxBlockText == 4

(***************************************************************************)
(* Generic helpers over sequences and finite maps.                         *)
(***************************************************************************)
SeqsUpTo(S, n) == UNION {[1..k -> S] : k \in 0..n}

Last(s) == s[Len(s)]

Front(s) == SubSeq(s, 1, Len(s) - 1)

RECURSIVE Flatten(_)
Flatten(ss) == IF ss = <<>> THEN <<>> ELSE Head(ss) \o Flatten(Tail(ss))

Range(s) == {s[i] : i \in DOMAIN s}

\* { ...f, [k]: v }
Put(f, k, v) == [x \in (DOMAIN f) \cup {k} |-> IF x = k THEN v ELSE f[x]]

\* delete f[k]
Del(f, k) == [x \in (DOMAIN f) \ {k} |-> f[x]]

EmptyMap == <<>>

(***************************************************************************)
(* Character classes of the regular expressions in the source.             *)
(***************************************************************************)
\* \s
WS == {" ", "NL", "TAB"}

\* line terminators, for ^ under the m flag
LineEnds == {"NL"}

\* [\.\!\?\…]
Terminators == {".", "!", "?", "ELLIPSIS"}

\* [\(\)\[\]\{\}\-\–\—\:]
LonePunct == {"(", ")", "[", "]", "{", "}", "-", "EN_DASH", "EM_DASH", ":"}

\* [A-ZÇĞIÖŞÜ]
UpperLetters ==
    {"A", "B", "C", "D", "E", "F", "G", "H", "I", "J", "K", "L", "M",
     "N", "O", "P", "Q", "R", "S", "T", "U", "V", "W", "X", "Y", "Z",
     "C_CEDILLA", "G_BREVE", "O_UMLAUT", "S_CEDILLA", "U_UMLAUT"}

\* [0-9]
Digits == {"0", "1", "2", "3", "4", "5", "6", "7", "8", "9"}

\* [IVX]
RomanLetters == {"I", "V", "X"}

\* the glyphs of isLikelyCheckbox
CheckboxGlyphs == {"BALLOT_BOX", "BALLOT_CHECKED", "WHITE_SQUARE", "CHECK_MARK", "BULLET"}

(***************************************************************************)
(* String primitives.                                                      *)
(***************************************************************************)
SetMin(S) == CHOOSE x \in S : \A y \in S : x <= y

SetMax(S) == CHOOSE x \in S : \A y \in S : x >= y

\* String.prototype.trim
Trim(s) ==
    LET keep == {i \in 1..Len(s) : s[i] \notin WS}
    IN  IF keep = {} THEN <<>> ELSE SubSeq(s, SetMin(keep), SetMax(keep))

\* the last index of the run of characters of class C that starts at i (i - 1 if none)
RunEnd(s, i, C) ==
    LET stop == {j \in i..Len(s) : s[j] \notin C}
    IN  IF stop = {} THEN Len(s) ELSE SetMin(stop) - 1

\* s.replace(/\s+/g, " ")
RECURSIVE CollapseFrom(_, _)
CollapseFrom(s, i) ==
    IF i > Len(s) THEN <<>>
    ELSE IF s[i] \in WS
         THEN <<" ">> \o CollapseFrom(s, RunEnd(s, i, WS) + 1)
         ELSE <<s[i]>> \o CollapseFrom(s, i + 1)

CollapseWs(s) == CollapseFrom(s, 1)

\* s.replace(/<[^>]*>/g, "")
RECURSIVE StripFrom(_, _)
StripFrom(s, i) ==
    IF i > Len(s) THEN <<>>
    ELSE LET close == {j \in (i + 1)..Len(s) : s[j] = ">"}
         IN  IF s[i] = "<" /\ close # {}
             THEN StripFrom(s, SetMin(close) + 1)
             ELSE <<s[i]>> \o StripFrom(s, i + 1)

StripTags(s) == StripFrom(s, 1)

\* picked.join(" ")
RECURSIVE JoinWithSpace(_)
JoinWithSpace(ss) ==
    IF ss = <<>> THEN <<>>
    ELSE IF Len(ss) = 1 THEN ss[1]
    ELSE ss[1] \o <<" ">> \o JoinWithSpace(Tail(ss))

\* escapeHtml, lines 26-33; an entity is one token
EscapeChar(c) ==
    CASE c = "&" -> "&amp;"
      [] c = "<" -> "&lt;"
      [] c = ">" -> "&gt;"
      [] c = "QUOTE" -> "&quot;"
      [] c = "APOS" -> "&#039;"
      [] OTHER -> c

escapeHtml(s) == [i \in 1..Len(s) |-> EscapeChar(s[i])]

(***************************************************************************)
(* transformText, lines 35-48.  A decorated span is the token sequence     *)
(* < SPAN > glyph < /SPAN >, where SPAN stands for the tag's interior; the *)
(* coloured span of lines 44 and 46 is < SPAN_TIME > ... < /SPAN >.  The   *)
(* digits inside the style attributes ("8.5pt", "rgb(236, 102, 65)",       *)
(* "1px 4px") are followed by no unit word, so the regular expressions of  *)
(* lines 43 and 45 never match inside a tag the earlier lines have put in. *)
(***************************************************************************)
Span(glyph) == <<"<", "SPAN", ">", glyph, "<", "/SPAN", ">">>

\* line 37: /=>/g
RECURSIVE ArrowFrom(_, _)
ArrowFrom(s, i) ==
    IF i > Len(s) THEN <<>>
    ELSE IF i < Len(s) /\ s[i] = "=" /\ s[i + 1] = ">"
         THEN Span("GEM") \o ArrowFrom(s, i + 2)
         ELSE <<s[i]>> \o ArrowFrom(s, i + 1)

\* line 38: /•/g
RECURSIVE BulletFrom(_, _)
BulletFrom(s, i) ==
    IF i > Len(s) THEN <<>>
    ELSE IF s[i] = "BULLET"
         THEN Span("ORB") \o BulletFrom(s, i + 1)
         ELSE <<s[i]>> \o BulletFrom(s, i + 1)

\* lines 39 and 41: /^-\s*/gm and /^\*\s*/gm
RECURSIVE LineMarkFrom(_, _, _, _)
LineMarkFrom(s, i, mark, glyph) ==
    IF i > Len(s) THEN <<>>
    ELSE IF s[i] = mark /\ (i = 1 \/ s[i - 1] \in LineEnds)
         THEN Span(glyph) \o <<" ">>
              \o LineMarkFrom(s, RunEnd(s, i + 1, WS) + 1, mark, glyph)
         ELSE <<s[i]>> \o LineMarkFrom(s, i + 1, mark, glyph)

\* the end of a match of /<br\s*\/?>\s*[mark]\s*/i starting at i, or 0
BrMarkEnd(s, i, mark) ==
    IF i + 2 <= Len(s) /\ s[i] = "<" /\ s[i + 1] \in {"b", "B"} /\ s[i + 2] \in {"r", "R"}
    THEN LET a == RunEnd(s, i + 3, WS) + 1
             b == IF a <= Len(s) /\ s[a] = "/" THEN a + 1 ELSE a
         IN  IF b <= Len(s) /\ s[b] = ">"
             THEN LET c == RunEnd(s, b + 1, WS) + 1
                  IN  IF c <= Len(s) /\ s[c] = mark
                      THEN RunEnd(s, c + 1, WS)
                      ELSE 0
             ELSE 0
    ELSE 0

\* lines 40 and 42
RECURSIVE BrMarkFrom(_, _, _, _)
BrMarkFrom(s, i, mark, glyph) ==
    IF i > Len(s) THEN <<>>
    ELSE IF BrMarkEnd(s, i, mark) > 0
         THEN <<"<", "b", "r", "/", ">">> \o Span(glyph) \o <<" ">>
              \o BrMarkFrom(s, BrMarkEnd(s, i, mark) + 1, mark, glyph)
         ELSE <<s[i]>> \o BrMarkFrom(s, i + 1, mark, glyph)

\* <span style="color: rgb(236, 102, 65); ...">body</span>, lines 44 and 46
TimeSpan(body) == <<"<", "SPAN_TIME", ">">> \o body \o <<"<", "/SPAN", ">">>

\* the word pat, one set of characters for each of its letters, is at i
WordAt(s, i, pat) ==
    /\ i + Len(pat) - 1 <= Len(s)
    /\ \A k \in 1..Len(pat) : s[i + k - 1] \in pat[k]

\* the second group of line 43 under the i flag.  An alternative is tried
\* in the order written and nothing follows the group, so the longer forms
\* (the -lik forms) end at their stem.  The dotless i of the first
\* alternative, written DOTLESS_I here, matches itself only; the I of "YIL"
\* matches I and i.
TimeUnitWords ==
    << << {"y", "Y"}, {"DOTLESS_I", "I", "i"}, {"l", "L"} >>,
       << {"a", "A"}, {"y", "Y"} >>,
       << {"h", "H"}, {"a", "A"}, {"f", "F"}, {"t", "T"}, {"a", "A"} >>,
       << {"g", "G"}, {"ü", "Ü", "U_UMLAUT"}, {"n", "N"} >> >>

\* the second group of line 45 under the i flag
TimeSinceWords ==
    << << {"y", "Y"}, {"I", "i"}, {"l", "L"}, {"d", "D"}, {"a", "A"}, {"n", "N"} >>,
       << {"a", "A"}, {"y", "Y"}, {"d", "D"}, {"a", "A"}, {"n", "N"} >>,
       << {"h", "H"}, {"a", "A"}, {"f", "F"}, {"t", "T"}, {"a", "A"},
          {"d", "D"}, {"a", "A"}, {"n", "N"} >>,
       << {"g", "G"}, {"ü", "Ü", "U_UMLAUT"}, {"n", "N"}, {"d", "D"}, {"e", "E"},
          {"n", "N"} >> >>

\* the third group of line 45 under the i flag
TimeAmountWords ==
    << << {"f", "F"}, {"a", "A"}, {"z", "Z"}, {"l", "L"}, {"a", "A"} >>,
       << {"ç", "Ç", "C_CEDILLA"}, {"o", "O"}, {"k", "K"} >>,
       << {"a", "A"}, {"z", "Z"} >> >>

\* the index where the first word of words that is at j ends, or 0
WordEndAt(s, j, words) ==
    IF \E k \in 1..Len(words) : WordAt(s, j, words[k])
    THEN j - 1 + Len(words[SetMin({k \in 1..Len(words) : WordAt(s, j, words[k])})])
    ELSE 0

\* where the second group starts in a match of /(\d+)\s*(...)/ at i
WordStart(s, i) == RunEnd(s, RunEnd(s, i, Digits) + 1, WS) + 1

\* the end of a match of line 43 at i, or 0
TimeUnitEnd(s, i) ==
    IF s[i] \in Digits THEN WordEndAt(s, WordStart(s, i), TimeUnitWords) ELSE 0

\* line 44: a match that ends at e becomes the coloured span of "$1  $2"
RECURSIVE TimeUnitsFrom(_, _)
RECURSIVE TimeUnitsAt(_, _, _)
TimeUnitsAt(s, i, e) ==
    IF e = 0 THEN <<s[i]>> \o TimeUnitsFrom(s, i + 1)
    ELSE TimeSpan(SubSeq(s, i, RunEnd(s, i, Digits)) \o <<" ", " ">>
                  \o SubSeq(s, WordStart(s, i), e))
         \o TimeUnitsFrom(s, e + 1)

TimeUnitsFrom(s, i) ==
    IF i > Len(s) THEN <<>> ELSE TimeUnitsAt(s, i, TimeUnitEnd(s, i))

\* the end of the second group of a match of line 45 at i, or 0
TimeSinceEnd(s, i) ==
    IF s[i] \in Digits THEN WordEndAt(s, WordStart(s, i), TimeSinceWords) ELSE 0

\* the end of the third group after a second group that ends at e, or 0
TimeAmountEnd(s, e) ==
    IF e = 0 THEN 0 ELSE WordEndAt(s, RunEnd(s, e + 1, WS) + 1, TimeAmountWords)

\* line 46: a match whose groups end at e2 and e3 becomes the coloured span
\* of "$1  $2 $3"
RECURSIVE TimeExpressionsFrom(_, _)
RECURSIVE TimeExpressionsAt(_, _, _, _)
TimeExpressionsAt(s, i, e2, e3) ==
    IF e3 = 0 THEN <<s[i]>> \o TimeExpressionsFrom(s, i + 1)
    ELSE TimeSpan(SubSeq(s, i, RunEnd(s, i, Digits)) \o <<" ", " ">>
                  \o SubSeq(s, WordStart(s, i), e2) \o <<" ">>
                  \o SubSeq(s, RunEnd(s, e2 + 1, WS) + 1, e3))
         \o TimeExpressionsFrom(s, e3 + 1)

TimeExpressionsFrom(s, i) ==
    IF i > Len(s) THEN <<>>
    ELSE TimeExpressionsAt(s, i, TimeSinceEnd(s, i), TimeAmountEnd(s, TimeSinceEnd(s, i)))

transformText(html) ==
    LET r1 == ArrowFrom(html, 1)
        r2 == BulletFrom(r1, 1)
        r3 == LineMarkFrom(r2, 1, "-", "FLAG")
        r4 == BrMarkFrom(r3, 1, "-", "FLAG")
        r5 == LineMarkFrom(r4, 1, "*", "STAR")
        r6 == BrMarkFrom(r5, 1, "*", "STAR")
        r7 == TimeUnitsFrom(r6, 1)
        r8 == TimeExpressionsFrom(r7, 1)
    IN  r8

(***************************************************************************)
(* splitIntoSentences, lines 50-63.                                        *)
(***************************************************************************)
\* text.split(/(?<=[\.\!\?\…])\s+(?=[^\s])/g): a separator is a maximal run
\* of whitespace that follows a terminator and precedes a character
RECURSIVE SplitFrom(_, _, _)
SplitFrom(text, i, cur) ==
    IF i > Len(text) THEN <<cur>>
    ELSE IF /\ text[i] \in WS
            /\ i > 1
            /\ text[i - 1] \in Terminators
            /\ RunEnd(text, i, WS) < Len(text)
         THEN <<cur>> \o SplitFrom(text, RunEnd(text, i, WS) + 1, <<>>)
         ELSE SplitFrom(text, i + 1, Append(cur, text[i]))

\* a slip in lines 58-60: a lone bracket, dash or colon is kept
SentenceOfPart_KeepsLonePunct(p) == transformText(Trim(p))

\* the callback of parts.map, lines 55-62
SentenceOfPart(p) ==
    LET trimmed == Trim(p)
    IN  IF Len(trimmed) = 1 /\ trimmed[1] \in LonePunct
        THEN <<>>
        ELSE transformText(trimmed)

splitIntoSentences(htmlText) ==
    LET text == Trim(htmlText)
    IN  IF text = <<>> THEN <<>>
        ELSE LET parts == SplitFrom(text, 1, <<>>)
                 mapped == [k \in 1..Len(parts) |-> SentenceOfPart(parts[k])]
             IN  SelectSeq(mapped, LAMBDA f : f # <<>>)

(***************************************************************************)
(* isLikelyCheckbox and looksLikeHeadingText, lines 65-78.                 *)
(***************************************************************************)
isLikelyCheckbox(text) ==
    LET t == Trim(text)
    IN  t # <<>> /\ t[1] \in CheckboxGlyphs

\* /^[C]+x/ : one or more characters of class C, then x
StartsWithRunThen(t, C, x) ==
    LET e == RunEnd(t, 1, C)
    IN  e >= 1 /\ e < Len(t) /\ t[e + 1] = x

HeadingMaxLen == 70

HeadingCapsCap == 6

\* a slip in line 76: t.length < 70
looksLikeHeadingText_Below70(text) ==
    LET t == Trim(CollapseWs(text))
        hasPuncEnd == Last(t) \in Terminators
        caps == Cardinality({i \in 1..Len(t) : t[i] \in UpperLetters})
        density == (Len(t) * 4) \div 10
        limit == IF HeadingCapsCap < density THEN HeadingCapsCap ELSE density
        hasManyCaps == caps >= limit
        isShort == Len(t) < HeadingMaxLen
    IN  IF t = <<>> THEN FALSE
        ELSE IF Len(t) <= 2 THEN FALSE
        ELSE /\ isShort
             /\ ~hasPuncEnd
             /\ \/ hasManyCaps
                \/ StartsWithRunThen(t, Digits, ")")
                \/ StartsWithRunThen(t, RomanLetters, ".")

looksLikeHeadingText(text) ==
    LET t == Trim(CollapseWs(text))
        hasPuncEnd == Last(t) \in Terminators
        caps == Cardinality({i \in 1..Len(t) : t[i] \in UpperLetters})
        \* Math.floor(t.length * 0.4)
        density == (Len(t) * 4) \div 10
        limit == IF HeadingCapsCap < density THEN HeadingCapsCap ELSE density
        hasManyCaps == caps >= limit
        isShort == Len(t) <= HeadingMaxLen
    IN  IF t = <<>> THEN FALSE
        ELSE IF Len(t) <= 2 THEN FALSE
        ELSE /\ isShort
             /\ ~hasPuncEnd
             /\ \/ hasManyCaps
                \/ StartsWithRunThen(t, Digits, ")")
                \/ StartsWithRunThen(t, RomanLetters, ".")

(***************************************************************************)
(* uid(prefix), lines 22-24: a fresh identifier.  The random and time      *)
(* parts of the id are modelled by the serial number n of the conversion   *)
(* that draws it and the position j of the call within that conversion, so *)
(* that every id drawn is fresh.                                           *)
(***************************************************************************)
uid(prefix, n, j) == <<prefix, n, j>>

(***************************************************************************)
(* DocElement, lines 7-12.  An emitted element is a DocElement before its  *)
(* id is drawn; the fields a variant does not have are left empty.         *)
(***************************************************************************)
PageBreak ==
    [type |-> "pageBreak", level |-> 0, content |-> <<>>, text |-> <<>>, data |-> <<>>]

Heading(level, content) ==
    [type |-> "heading", level |-> level, content |-> content, text |-> <<>>, data |-> <<>>]

Paragraph(text) ==
    [type |-> "paragraph", level |-> 0, content |-> <<>>, text |-> text, data |-> <<>>]

Checkbox(text) ==
    [type |-> "checkbox", level |-> 0, content |-> <<>>, text |-> text, data |-> <<>>]

Table(data) ==
    [type |-> "table", level |-> 0, content |-> <<>>, text |-> <<>>, data |-> data]

\* the prefix each push passes to uid
IdPrefix(type) ==
    CASE type = "pageBreak" -> "pb"
      [] type = "table" -> "tbl"
      [] type = "heading" -> "h"
      [] type = "checkbox" -> "cb"
      [] OTHER -> "p"

\* out.push({ id: uid(...), ... }) for each emitted element, in walk order
WithIds(emitted, n) ==
    [j \in 1..Len(emitted) |->
        [id |-> uid(IdPrefix(emitted[j].type), n, j),
         type |-> emitted[j].type,
         level |-> emitted[j].level,
         content |-> emitted[j].content,
         text |-> emitted[j].text,
         data |-> emitted[j].data]]

(***************************************************************************)
(* The converter's HTML: a sequence of body children.  A node carries its  *)
(* tagName, the words of its style attribute, its innerHTML, the cells of  *)
(* its rows (a table) and its element children.                            *)
(***************************************************************************)
Node(tag, style, inner) ==
    [tag |-> tag, style |-> style, inner |-> inner, rows |-> <<>>, children |-> <<>>]

TableNode(style, rows) ==
    [tag |-> "TABLE", style |-> style, inner |-> <<>>, rows |-> rows, children |-> <<>>]

Container(tag, style, children) ==
    [tag |-> tag, style |-> style, inner |-> <<>>, rows |-> <<>>, children |-> children]

\* String.prototype.toLowerCase on the words the model uses
toLowerCase(w) ==
    CASE w = "TABLE" -> "table"
      [] w = "H1" -> "h1"
      [] w = "H2" -> "h2"
      [] w = "H3" -> "h3"
      [] w = "P" -> "p"
      [] w = "DIV" -> "div"
      [] w = "SECTION" -> "section"
      [] w = "PAGE-BREAK-BEFORE" -> "page-break-before"
      [] w = "ALWAYS" -> "always"
      [] w = ".DOCX" -> ".docx"
      [] w = ".Docx" -> ".docx"
      [] w = ".TXT" -> ".txt"
      [] OTHER -> w

\* style.includes(word), style lower-cased at line 97
StyleIncludes(style, word) == \E i \in 1..Len(style) : toLowerCase(style[i]) = word

\* the decoding of entities in node.textContent
DecodeChar(c) ==
    CASE c = "&amp;" -> "&"
      [] c = "&lt;" -> "<"
      [] c = "&gt;" -> ">"
      [] c = "&quot;" -> "QUOTE"
      [] c = "&#039;" -> "APOS"
      [] OTHER -> c

\* node.textContent: the text of the node without its tags
textContent(inner) ==
    LET bare == StripTags(inner)
    IN  [i \in 1..Len(bare) |-> DecodeChar(bare[i])]

\* parseHtmlTable, lines 80-88: c.innerHTML.trim() of every cell of every row
parseHtmlTable(rows) ==
    [r \in 1..Len(rows) |-> [c \in 1..Len(rows[r]) |-> Trim(rows[r][c])]]

\* a slip in lines 120-128: the checkbox test comes before the heading test
ClassifyBlock_CheckboxFirst(node) ==
    LET raw == Trim(node.inner)
        plain == textContent(node.inner)
        t == Trim(CollapseWs(plain))
    IN  IF t = <<>> THEN <<>>
        ELSE IF isLikelyCheckbox(t) THEN <<Checkbox(raw)>>
        ELSE IF looksLikeHeadingText(t) THEN <<Heading(2, escapeHtml(t))>>
        ELSE <<Paragraph(raw)>>

\* lines 114-133: a p or div node
ClassifyBlock(node) ==
    LET raw == Trim(node.inner)
        plain == textContent(node.inner)
        t == Trim(CollapseWs(plain))
    IN  IF t = <<>> THEN <<>>
        ELSE IF looksLikeHeadingText(t) THEN <<Heading(2, escapeHtml(t))>>
        ELSE IF isLikelyCheckbox(t) THEN <<Checkbox(raw)>>
        ELSE <<Paragraph(raw)>>

HeadingLevel(tag) == IF tag = "h1" THEN 1 ELSE IF tag = "h2" THEN 2 ELSE 3

\* walk, lines 95-137, and Array.from(...).forEach(walk)
RECURSIVE walk(_)
RECURSIVE WalkAll(_)
walk(node) ==
    LET tag == toLowerCase(node.tag)
        break == IF StyleIncludes(node.style, "page-break-before")
                    /\ StyleIncludes(node.style, "always")
                 THEN <<PageBreak>>
                 ELSE <<>>
    IN  break \o
        (IF tag = "table" THEN <<Table(parseHtmlTable(node.rows))>>
         ELSE IF tag \in {"h1", "h2", "h3"}
              THEN <<Heading(HeadingLevel(tag), Trim(node.inner))>>
         ELSE IF tag \in {"p", "div"} THEN ClassifyBlock(node)
         ELSE WalkAll(node.children))

WalkAll(nodes) ==
    IF nodes = <<>> THEN <<>> ELSE walk(Head(nodes)) \o WalkAll(Tail(nodes))

(***************************************************************************)
(* docxToElements, lines 141-148: collapse doubled breaks, drop a trailing *)
(* one.                                                                    *)
(***************************************************************************)
\* one iteration of `for (const el of out)`
CleanStep(cleaned, el) ==
    IF el.type = "pageBreak" /\ Len(cleaned) > 0 /\ Last(cleaned).type = "pageBreak"
    THEN cleaned
    ELSE Append(cleaned, el)

RECURSIVE CleanLoop(_, _, _)
CleanLoop(out, i, cleaned) ==
    IF i > Len(out) THEN cleaned
    ELSE CleanLoop(out, i + 1, CleanStep(cleaned, out[i]))

\* a slip in line 146: the trailing break is never popped
PopTrailingBreak_Never(cleaned) == cleaned

\* if (cleaned.at(-1)?.type === "pageBreak") cleaned.pop()
PopTrailingBreak(cleaned) ==
    IF Len(cleaned) > 0 /\ Last(cleaned).type = "pageBreak"
    THEN Front(cleaned)
    ELSE cleaned

Cleaned(out) == PopTrailingBreak(CleanLoop(out, 1, <<>>))

\* docxToElements, lines 90-149, for the conversion with serial number n
docxToElements(html, n) == Cleaned(WithIds(WalkAll(html), n))


(***************************************************************************)
(* splitElementsIntoPages, lines 151-161.                                  *)
(***************************************************************************)
\* a slip in lines 154-157: the `continue` is missing, so the break is pushed
\* onto the page it opens
PagesStep_KeepsBreak(pages, el) ==
    IF el.type = "pageBreak"
    THEN IF Len(Last(pages)) > 0 THEN Append(pages, <<el>>) ELSE pages
    ELSE [pages EXCEPT ![Len(pages)] = Append(@, el)]

\* one iteration of `for (const el of elements)`
PagesStep(pages, el) ==
    IF el.type = "pageBreak"
    THEN IF Len(Last(pages)) > 0 THEN Append(pages, <<>>) ELSE pages
    ELSE [pages EXCEPT ![Len(pages)] = Append(@, el)]

RECURSIVE PagesLoop(_, _, _)
PagesLoop(elements, i, pages) ==
    IF i > Len(elements) THEN pages
    ELSE PagesLoop(elements, i + 1, PagesStep(pages, elements[i]))

\* a slip in line 160: p.length > 1
DropEmptyPages_AndSingles(pages) == SelectSeq(pages, LAMBDA p : Len(p) > 1)

\* a slip in line 160: the filter is missing
DropEmptyPages_Never(pages) == pages

\* pages.filter((p) => p.length > 0)
DropEmptyPages(pages) == SelectSeq(pages, LAMBDA p : Len(p) > 0)

splitElementsIntoPages(elements) ==
    DropEmptyPages(PagesLoop(elements, 1, << <<>> >>))

(***************************************************************************)
(* The files a user can select or drop.  A file has a name (stem and       *)
(* extension), whether file.arrayBuffer() resolves, whether                *)
(* mammoth.convertToHtml resolves, and the HTML the converter returns.     *)
(***************************************************************************)
BreakStyle == <<"PAGE-BREAK-BEFORE", ":", "always">>

NoStyle == <<>>

\* "a. b": two sentences
TextAB == <<"a", ".", " ", "b">>

\* "• 5ay.": a checkbox item of one sentence, with a duration
TextBulletC == <<"BULLET", " ", "5", "a", "y", ".">>

\* "c. )": one sentence and a lone bracket
TextCParen == <<" ", "c", ".", " ", ")", " ">>

\* "AB C": promoted to a heading
TextCaps == <<"A", "B", " ", "C">>

HtmlA ==
    << Node("P", BreakStyle, TextAB),
       Node("DIV", BreakStyle, <<" ">>),
       Container("SECTION", NoStyle, << Node("P", BreakStyle, TextBulletC) >>),
       Node("P", BreakStyle, <<>>) >>

HtmlB ==
    << TableNode(NoStyle, << << <<"x">>, <<" ", "y">> >> >>),
       Node("P", NoStyle, TextCaps),
       Node("P", NoStyle, TextCParen) >>

Files ==
    [A |-> [name |-> <<"a", ".docx">>, readable |-> TRUE, valid |-> TRUE, html |-> HtmlA],
     B |-> [name |-> <<"b", ".DOCX">>, readable |-> TRUE, valid |-> TRUE, html |-> HtmlB],
     C |-> [name |-> <<"c", ".docx">>, readable |-> FALSE, valid |-> FALSE, html |-> <<>>],
     D |-> [name |-> <<"d", ".docx">>, readable |-> TRUE, valid |-> FALSE, html |-> <<>>],
     E |-> [name |-> <<"e", ".txt">>, readable |-> TRUE, valid |-> FALSE, html |-> <<>>]]

FileIds == DOMAIN Files

\* f.name.toLowerCase().endsWith(".docx"), line 313
IsDocxName(name) == toLowerCase(Last(name)) = ".docx"

\* a slip in line 313: the filter is missing
AcceptedFiles_All(files) == files

\* Array.from(files).filter(...), line 313
AcceptedFiles(files) == SelectSeq(files, LAMBDA f : IsDocxName(Files[f].name))

(***************************************************************************)
(* Derived values of a render, lines 179-188.                              *)
(***************************************************************************)
\* useState<string | null>(null)
NoDocId == <<>>

DocIds(docs) == {docs[i].id : i \in 1..Len(docs)}

\* documents.find((d) => d.id === currentDocId) || null
HasCurrentDoc == \E i \in 1..Len(documents) : documents[i].id = currentDocId

CurrentDoc ==
    documents[SetMin({i \in 1..Len(documents) : documents[i].id = currentDocId})]

\* prev[currentDoc.id] || {}
MapOf(byDoc, docId) == IF docId \in DOMAIN byDoc THEN byDoc[docId] ELSE EmptyMap

highlights == IF HasCurrentDoc THEN MapOf(highlightsByDoc, CurrentDoc.id) ELSE EmptyMap

pages == IF HasCurrentDoc THEN splitElementsIntoPages(CurrentDoc.elements) ELSE <<>>

(***************************************************************************)
(* The annotation store, lines 190-213, 291-293 and 419-431.               *)
(***************************************************************************)
NoEntry == [sentences |-> <<>>, hasHighlight |-> FALSE]

\* prev[key] || { sentences: [], hasHighlight: false }
EntryOf(prev, key) == IF key \in DOMAIN prev THEN prev[key] ELSE NoEntry

\* `${elementId}_r${rowIndex}_c${cellIndex}`, line 420
CellKey(elementId, rowIndex, cellIndex) == elementId \o <<"_r", rowIndex, "_c", cellIndex>>

\* a slip in line 209: hasHighlight: !exists
SentenceUpdater_FlagFromExists(prev, elementId, sentenceIndex) ==
    LET current == EntryOf(prev, elementId)
        exists == \E k \in 1..Len(current.sentences) : current.sentences[k] = sentenceIndex
        nextSentences ==
            IF exists
            THEN SelectSeq(current.sentences, LAMBDA i : i # sentenceIndex)
            ELSE Append(current.sentences, sentenceIndex)
    IN  Put(prev, elementId, [sentences |-> nextSentences, hasHighlight |-> ~exists])

\* a slip in lines 202-204: the index is appended whether or not it is selected
SentenceUpdater_AlwaysAppends(prev, elementId, sentenceIndex) ==
    LET current == EntryOf(prev, elementId)
        nextSentences == Append(current.sentences, sentenceIndex)
    IN  Put(prev, elementId,
            [sentences |-> nextSentences, hasHighlight |-> Len(nextSentences) > 0])

\* the updater of handleSentenceClick, lines 199-212
SentenceUpdater(prev, elementId, sentenceIndex) ==
    LET current == EntryOf(prev, elementId)
        exists == \E k \in 1..Len(current.sentences) : current.sentences[k] = sentenceIndex
        nextSentences ==
            IF exists
            THEN SelectSeq(current.sentences, LAMBDA i : i # sentenceIndex)
            ELSE Append(current.sentences, sentenceIndex)
    IN  Put(prev, elementId,
            [sentences |-> nextSentences, hasHighlight |-> Len(nextSentences) > 0])

\* a slip in lines 426-427: a click always selects the cell
CellUpdater_AlwaysSelects(prev, cellKey) ==
    Put(prev, cellKey, [sentences |-> <<0>>, hasHighlight |-> TRUE])

\* the updater of handleCellClick, lines 421-430
CellUpdater(prev, cellKey) ==
    LET current == EntryOf(prev, cellKey)
    IN  Put(prev, cellKey,
            [sentences |-> IF current.hasHighlight THEN <<>> ELSE <<0>>,
             hasHighlight |-> ~current.hasHighlight])

\* a slip in line 194: the updated map is stored for every document
MergeDocMap_EveryDoc(prev, docId, updated) ==
    [d \in DocIds(documents) \cup (DOMAIN prev) \cup {docId} |-> updated]

\* { ...prev, [currentDoc.id]: updater(cur) }, line 194
MergeDocMap(prev, docId, updated) == Put(prev, docId, updated)

(***************************************************************************)
(* getAllHighlightedText, lines 215-242.                                   *)
(***************************************************************************)
\* a slip in lines 226-227: the indices are used in the order they were toggled
SortAscending_AsToggled(nums) == nums

\* numbers.slice().sort((a, b) => a - b)
RECURSIVE SortAscending(_)
SortAscending(nums) ==
    IF nums = <<>> THEN <<>>
    ELSE LET m == SetMin(Range(nums))
             k == SetMin({i \in 1..Len(nums) : nums[i] = m})
         IN  <<m>> \o SortAscending(SubSeq(nums, 1, k - 1) \o SubSeq(nums, k + 1, Len(nums)))

\* lines 225-229: the fragments of the selected indices, in the order given
PickSentences(indices, sentences) ==
    LET found == SelectSeq(indices, LAMBDA idx : idx + 1 \in 1..Len(sentences))
    IN  [k \in 1..Len(found) |-> sentences[found[k] + 1]]

\* lines 232-236
AsPlain(picked) ==
    Trim(CollapseWs(JoinWithSpace([k \in 1..Len(picked) |-> StripTags(picked[k])])))

\* a slip in line 220: a table adds the content of its selected cells
ExportOfElement_WithCells(el, hl) ==
    IF el.type = "table"
    THEN LET cells == Flatten([r \in 1..Len(el.data) |->
                         [c \in 1..Len(el.data[r]) |->
                             [key |-> CellKey(el.id, r - 1, c - 1), text |-> el.data[r][c]]]])
             chosen == SelectSeq(cells,
                          LAMBDA x : x.key \in DOMAIN hl /\ hl[x.key].hasHighlight)
         IN  [k \in 1..Len(chosen) |-> [from |-> chosen[k].key, text |-> chosen[k].text]]
    ELSE IF el.type # "paragraph" /\ el.type # "checkbox" THEN <<>>
    ELSE IF ~(el.id \in DOMAIN hl /\ hl[el.id].hasHighlight) THEN <<>>
    ELSE LET sentences == splitIntoSentences(el.text)
             picked == PickSentences(SortAscending(hl[el.id].sentences), sentences)
         IN  IF Len(picked) > 0 /\ AsPlain(picked) # <<>>
             THEN << [from |-> el.id, text |-> AsPlain(picked)] >>
             ELSE <<>>

\* a slip in lines 231-237: every picked sentence is pushed on its own
ExportOfElement_PerSentence(el, hl) ==
    IF el.type # "paragraph" /\ el.type # "checkbox" THEN <<>>
    ELSE IF ~(el.id \in DOMAIN hl /\ hl[el.id].hasHighlight) THEN <<>>
    ELSE LET sentences == splitIntoSentences(el.text)
             picked == PickSentences(SortAscending(hl[el.id].sentences), sentences)
         IN  [k \in 1..Len(picked) |-> [from |-> el.id, text |-> AsPlain(<<picked[k]>>)]]

\* lines 220-238 for one element: the entries it adds to `exported`
ExportOfElement(el, hl) ==
    IF el.type # "paragraph" /\ el.type # "checkbox" THEN <<>>
    ELSE IF ~(el.id \in DOMAIN hl /\ hl[el.id].hasHighlight) THEN <<>>
    ELSE LET sentences == splitIntoSentences(el.text)
             picked == PickSentences(SortAscending(hl[el.id].sentences), sentences)
         IN  IF Len(picked) > 0 /\ AsPlain(picked) # <<>>
             THEN << [from |-> el.id, text |-> AsPlain(picked)] >>
             ELSE <<>>

\* the walk of lines 218-240 over the pages; each entry keeps the id of the
\* element it was assembled from
ExportItems(pgs, hl) ==
    LET flat == Flatten(pgs)
    IN  Flatten([k \in 1..Len(flat) |-> ExportOfElement(flat[k], hl)])

getAllHighlightedText ==
    IF ~HasCurrentDoc THEN <<>>
    ELSE LET items == ExportItems(pages, highlights)
         IN  [k \in 1..Len(items) |-> items[k].text]

(***************************************************************************)
(* The handlers.                                                           *)
(***************************************************************************)
Op(name, arg) == [op |-> name, arg |-> arg]

\* the elements the current render shows with clickable sentences
ParagraphLikes(doc) ==
    {e \in Range(Flatten(splitElementsIntoPages(doc.elements))) :
        e.type \in {"paragraph", "checkbox"}}

TablesOf(doc) ==
    {e \in Range(Flatten(splitElementsIntoPages(doc.elements))) : e.type = "table"}

\* the (elementId, sentenceIndex) pairs handleSentenceClick is called with:
\* the sentence spans of the render (lines 475-478 and 497); while no
\* document is open no span is rendered, and a call names an element of none
SentenceTargets ==
    IF HasCurrentDoc
    THEN UNION { {<<el.id, sIdx>> : sIdx \in 0..(Len(splitIntoSentences(el.text)) - 1)} :
                    el \in ParagraphLikes(CurrentDoc) }
    ELSE { <<uid("p", 0, 1), 0>> }

\* the (elementId, rowIndex, cellIndex) triples handleCellClick is called
\* with: the cells of the render (line 449)
CellTargets ==
    IF HasCurrentDoc
    THEN UNION { UNION { {<<el.id, r - 1, c - 1>> : c \in 1..Len(el.data[r])} :
                            r \in 1..Len(el.data) } :
                    el \in TablesOf(CurrentDoc) }
    ELSE { <<uid("tbl", 0, 1), 0, 0>> }

\* a slip in line 191: the guard on currentDoc is missing and the map is
\* stored under the selection, whatever it is
HighlightsByDocAfter_NoGuard(prev, hasDoc, docId, updated) ==
    MergeDocMap(prev, docId, updated)

\* lines 191-195: highlightsByDoc after setHighlightsForCurrentDoc
HighlightsByDocAfter(prev, hasDoc, docId, updated) ==
    IF ~hasDoc THEN prev ELSE MergeDocMap(prev, docId, updated)

\* setHighlightsForCurrentDoc, lines 190-196, with the updater's result
\* (currentDoc.id is currentDocId whenever currentDoc is found, line 179)
SetHighlightsForCurrentDoc(updated) ==
    highlightsByDoc' =
        HighlightsByDocAfter(highlightsByDoc, HasCurrentDoc, currentDocId, updated)

\* onClick of a sentence span or of the paragraph indicator, lines 475-478 and 497
HandleSentenceClick ==
    /\ \E t \in SentenceTargets :
         /\ SetHighlightsForCurrentDoc(SentenceUpdater(highlights, t[1], t[2]))
         /\ lastOp' = Op("handleSentenceClick", <<t[1], t[2], EntryOf(highlights, t[1])>>)
    /\ UNCHANGED <<documents, currentDocId, tasks, uidSeq, clipVars, pipeVars>>

\* onClick of a table cell, line 449; the history keeps the key and what
\* getAllHighlightedText returned when the cell was clicked
HandleCellClick ==
    /\ \E t \in CellTargets :
         /\ SetHighlightsForCurrentDoc(CellUpdater(highlights, CellKey(t[1], t[2], t[3])))
         /\ lastOp' = Op("handleCellClick",
                         <<CellKey(t[1], t[2], t[3]), getAllHighlightedText>>)
    /\ UNCHANGED <<documents, currentDocId, tasks, uidSeq, clipVars, pipeVars>>

\* a slip in line 292: the entries of table cells survive
ClearUpdater_KeepsCells(prev) ==
    [k \in {x \in DOMAIN prev : Len(x) > 3} |-> prev[k]]

\* the updater of clearHighlights, line 292: () => ({})
ClearUpdater(prev) == EmptyMap

\* clearHighlights, lines 291-293; the history keeps the document, the number
\* of entries and the number of export entries the call found
ClearHighlights ==
    /\ SetHighlightsForCurrentDoc(ClearUpdater(highlights))
    /\ lastOp' = Op("clearHighlights",
                    <<IF HasCurrentDoc THEN currentDocId ELSE NoDocId,
                      Cardinality(DOMAIN highlights),
                      Len(getAllHighlightedText)>>)
    /\ UNCHANGED <<documents, currentDocId, tasks, uidSeq, clipVars, pipeVars>>

\* prev.filter((d) => d.id !== currentDoc.id), line 297
WithoutDoc(docs, docId) == SelectSeq(docs, LAMBDA d : d.id # docId)

\* a slip in lines 298-302: the document's map is kept
WithoutMap_Keeps(byDoc, docId) == byDoc

\* the updater of line 298-302
WithoutMap(byDoc, docId) == Del(byDoc, docId)

\* a slip in line 303: the selection is kept
SelectionAfterRemove_Keeps(prev, docId) == prev

\* the updater of line 303: (prev) => (prev === currentDoc.id ? null : prev)
SelectionAfterRemove(prev, docId) == IF prev = docId THEN NoDocId ELSE prev

\* removeCurrentDoc, lines 295-305: three state updates of one event,
\* applied together before the next render
RemoveCurrentDoc ==
    /\ IF ~HasCurrentDoc
       THEN /\ UNCHANGED <<documents, highlightsByDoc, currentDocId>>
            /\ lastOp' = Op("removeCurrentDoc", <<NoDocId, FALSE>>)
       ELSE /\ documents' = WithoutDoc(documents, CurrentDoc.id)
            /\ highlightsByDoc' = WithoutMap(highlightsByDoc, CurrentDoc.id)
            /\ currentDocId' = SelectionAfterRemove(currentDocId, CurrentDoc.id)
            /\ lastOp' = Op("removeCurrentDoc",
                            <<CurrentDoc.id, CurrentDoc.id \in DOMAIN highlightsByDoc>>)
    /\ UNCHANGED <<tasks, uidSeq, clipVars, pipeVars>>

\* onClick of a document tab, lines 690-697: shown while no document is open
SelectDoc ==
    /\ Len(documents) > 0
    /\ ~HasCurrentDoc
    /\ \E i \in 1..Len(documents) :
         /\ currentDocId' = documents[i].id
         /\ lastOp' = Op("setCurrentDocId", documents[i].id)
    /\ UNCHANGED <<documents, highlightsByDoc, tasks, uidSeq, clipVars, pipeVars>>

(***************************************************************************)
(* readFiles, lines 312-326.  A task is one call suspended at an await:    *)
(* the accepted files, the index of the file in hand, the await it waits   *)
(* at, and parsedDocs.                                                     *)
(***************************************************************************)
Batches == SeqsUpTo(FileIds, MaxBatch)

\* the conversions the suspended calls may still make
RECURSIVE PendingConversions(_)
PendingConversions(ts) ==
    IF ts = <<>> THEN 0
    ELSE (Len(Head(ts).files) - Head(ts).i + 1) + PendingConversions(Tail(ts))

WithoutTask(ts, k) == SubSeq(ts, 1, k - 1) \o SubSeq(ts, k + 1, Len(ts))

\* readFiles(files) up to its first await, lines 313-318
ReadFiles(files) ==
    LET fileArr == AcceptedFiles(files)
    IN  /\ uidSeq + PendingConversions(tasks) + Len(fileArr) <= MaxConversions
        /\ tasks' = IF Len(fileArr) = 0 THEN tasks
                    ELSE Append(tasks, [files |-> fileArr, i |-> 1,
                                        phase |-> "arrayBuffer",
                                        parsedDocs |-> <<>>])
        /\ lastOp' = Op("readFiles", files)
        /\ UNCHANGED <<documents, currentDocId, highlightsByDoc, uidSeq, clipVars, pipeVars>>

\* a file selection or a drop (handleFileUpload line 330, onDrop line 359)
ReadFilesStart == \E files \in Batches : ReadFiles(files)

\* file.arrayBuffer() resolves, line 318
ArrayBufferResolves ==
    \E k \in 1..Len(tasks) :
        /\ tasks[k].phase = "arrayBuffer"
        /\ Files[tasks[k].files[tasks[k].i]].readable
        /\ tasks' = [tasks EXCEPT ![k].phase = "convertToHtml"]
        /\ lastOp' = Op("arrayBuffer", tasks[k].files[tasks[k].i])
        /\ UNCHANGED <<documents, currentDocId, highlightsByDoc, uidSeq, clipVars, pipeVars>>

\* file.arrayBuffer() rejects: the await throws and readFiles ends
ArrayBufferRejects ==
    \E k \in 1..Len(tasks) :
        /\ tasks[k].phase = "arrayBuffer"
        /\ ~Files[tasks[k].files[tasks[k].i]].readable
        /\ tasks' = WithoutTask(tasks, k)
        /\ lastOp' = Op("readFilesRejected", tasks[k].files)
        /\ UNCHANGED <<documents, currentDocId, highlightsByDoc, uidSeq, clipVars, pipeVars>>

\* mammoth.convertToHtml rejects: the await throws and readFiles ends
ConvertRejects ==
    \E k \in 1..Len(tasks) :
        /\ tasks[k].phase = "convertToHtml"
        /\ ~Files[tasks[k].files[tasks[k].i]].valid
        /\ tasks' = WithoutTask(tasks, k)
        /\ lastOp' = Op("readFilesRejected", tasks[k].files)
        /\ UNCHANGED <<documents, currentDocId, highlightsByDoc, uidSeq, clipVars, pipeVars>>

\* lines 320-321: the document of the file in hand
ParsedDoc(f, n) ==
    [id |-> uid("doc", n, 0), name |-> Files[f].name,
     elements |-> docxToElements(Files[f].html, n)]

\* mammoth.convertToHtml resolves for a file that is not the last: lines
\* 319-321, then the next iteration up to its await
ConvertResolvesNext ==
    \E k \in 1..Len(tasks) :
        /\ tasks[k].phase = "convertToHtml"
        /\ Files[tasks[k].files[tasks[k].i]].valid
        /\ tasks[k].i < Len(tasks[k].files)
        /\ tasks' = [tasks EXCEPT
                        ![k].parsedDocs =
                            Append(@, ParsedDoc(tasks[k].files[tasks[k].i], uidSeq + 1)),
                        ![k].i = @ + 1,
                        ![k].phase = "arrayBuffer"]
        /\ uidSeq' = uidSeq + 1
        /\ lastOp' = Op("convertToHtml", tasks[k].files[tasks[k].i])
        /\ UNCHANGED <<documents, currentDocId, highlightsByDoc, clipVars, pipeVars>>

\* a slip in line 324: [...parsedDocs, ...prev]
AppendDocs_Prepends(prev, parsedDocs) == parsedDocs \o prev

\* setDocuments((prev) => [...prev, ...parsedDocs]), line 324
AppendDocs(prev, parsedDocs) == prev \o parsedDocs

\* a slip in line 325: the first document of the batch is always selected
NextCurrentDocId_AlwaysFirst(prev, parsedDocs) ==
    IF Len(parsedDocs) > 0 THEN parsedDocs[1].id ELSE NoDocId

\* setCurrentDocId((prev) => prev || parsedDocs[0]?.id || null), line 325
NextCurrentDocId(prev, parsedDocs) ==
    IF prev # NoDocId THEN prev
    ELSE IF Len(parsedDocs) > 0 THEN parsedDocs[1].id
    ELSE NoDocId

\* mammoth.convertToHtml resolves for the last file: lines 319-321, the end
\* of the loop and lines 324-325
ConvertResolvesLast ==
    \E k \in 1..Len(tasks) :
        /\ tasks[k].phase = "convertToHtml"
        /\ Files[tasks[k].files[tasks[k].i]].valid
        /\ tasks[k].i = Len(tasks[k].files)
        /\ LET parsedDocs ==
                   Append(tasks[k].parsedDocs,
                          ParsedDoc(tasks[k].files[tasks[k].i], uidSeq + 1))
           IN  /\ documents' = AppendDocs(documents, parsedDocs)
               /\ currentDocId' = NextCurrentDocId(currentDocId, parsedDocs)
        /\ tasks' = WithoutTask(tasks, k)
        /\ uidSeq' = uidSeq + 1
        /\ lastOp' = Op("readFilesDone", tasks[k].files)
        /\ UNCHANGED <<highlightsByDoc, clipVars, pipeVars>>

(***************************************************************************)
(* exportHighlights, lines 244-255.  A call is suspended at the await of   *)
(* navigator.clipboard.writeText; pendingWrites counts the suspended calls.*)
(***************************************************************************)
\* a slip in lines 248-254: the confirmation is set whatever the outcome
CopySuccessAfter_Always(prev, written) == TRUE

\* copySuccess after the write has settled: set at line 249 when it
\* resolved, left alone by the catch block of lines 252-254
CopySuccessAfter(prev, written) == IF written THEN TRUE ELSE prev

\* the call up to its await (menu lines 604 and 782, shortcut line 380)
ExportHighlightsStart ==
    /\ pendingWrites < MaxPendingWrites
    /\ pendingWrites' = pendingWrites + 1
    /\ lastOp' = Op("exportHighlights", getAllHighlightedText)
    /\ UNCHANGED <<documents, currentDocId, highlightsByDoc, tasks, uidSeq,
                   copySuccess, pipeVars>>

\* writeText resolves: lines 249-251
ClipboardResolves ==
    /\ pendingWrites > 0
    /\ pendingWrites' = pendingWrites - 1
    /\ copySuccess' = CopySuccessAfter(copySuccess, TRUE)
    /\ lastOp' = Op("clipboardResolved", <<>>)
    /\ UNCHANGED <<documents, currentDocId, highlightsByDoc, tasks, uidSeq, pipeVars>>

\* writeText rejects: the catch block, lines 252-254
ClipboardRejects ==
    /\ pendingWrites > 0
    /\ pendingWrites' = pendingWrites - 1
    /\ copySuccess' = CopySuccessAfter(copySuccess, FALSE)
    /\ lastOp' = Op("clipboardRejected", <<>>)
    /\ UNCHANGED <<documents, currentDocId, highlightsByDoc, tasks, uidSeq, pipeVars>>

\* the timer of line 250 fires; one is pending whenever copySuccess is set
CopySuccessTimeout ==
    /\ copySuccess
    /\ copySuccess' = FALSE
    /\ lastOp' = Op("copySuccessTimeout", <<>>)
    /\ UNCHANGED <<documents, currentDocId, highlightsByDoc, tasks, uidSeq,
                   pendingWrites, pipeVars>>

(***************************************************************************)
(* The application: the state after the first render, and its steps.       *)
(***************************************************************************)
PipeOff ==
    /\ pipeHtml = <<>>
    /\ pipeOut = <<>>
    /\ elems = <<>>
    /\ pageList = <<>>
    /\ stage = "off"
    /\ textIn = <<>>
    /\ textOut = <<>>

Init ==
    /\ documents = <<>>
    /\ currentDocId = NoDocId
    /\ highlightsByDoc = EmptyMap
    /\ tasks = <<>>
    /\ uidSeq = 0
    /\ lastOp = Op("init", <<>>)
    /\ copySuccess = FALSE
    /\ pendingWrites = 0
    /\ PipeOff

Next ==
    \/ HandleSentenceClick
    \/ HandleCellClick
    \/ ClearHighlights
    \/ RemoveCurrentDoc
    \/ SelectDoc
    \/ ReadFilesStart
    \/ ArrayBufferResolves
    \/ ArrayBufferRejects
    \/ ConvertRejects
    \/ ConvertResolvesNext
    \/ ConvertResolvesLast

Spec == Init /\ [][Next]_vars

(***************************************************************************)
(* The application with its clipboard export, in sessions where the files  *)
(* are given one at a time.                                                *)
(***************************************************************************)
\* a file selection or a drop of one file
ReadOneFile == \E f \in FileIds : ReadFiles(<<f>>)

NextExport ==
    \/ HandleSentenceClick
    \/ HandleCellClick
    \/ ClearHighlights
    \/ RemoveCurrentDoc
    \/ SelectDoc
    \/ ReadOneFile
    \/ ArrayBufferResolves
    \/ ArrayBufferRejects
    \/ ConvertRejects
    \/ ConvertResolvesLast
    \/ ExportHighlightsStart
    \/ ClipboardResolves
    \/ ClipboardRejects
    \/ CopySuccessTimeout

SpecExport == Init /\ [][NextExport]_vars

(***************************************************************************)
(* The pipeline on its own: docxToElements and splitElementsIntoPages      *)
(* applied to every HTML of at most MaxLen body children drawn from        *)
(* NodePool.  The paginator is applied to the normalized list, as the      *)
(* application does, and to the list as the walk emitted it.               *)
(***************************************************************************)
NodePool ==
    { Node("P", NoStyle, TextAB),
      Node("P", BreakStyle, TextCaps),
      Node("DIV", BreakStyle, <<" ">>),
      TableNode(NoStyle, << << <<"x">> >> >>),
      Container("SECTION", NoStyle, << Node("H3", BreakStyle, <<"t">>),
                                       Node("P", NoStyle, TextBulletC) >>) }

PipeInit ==
    /\ documents = <<>>
    /\ currentDocId = NoDocId
    /\ highlightsByDoc = EmptyMap
    /\ tasks = <<>>
    /\ uidSeq = 0
    /\ lastOp = Op("init", <<>>)
    /\ copySuccess = FALSE
    /\ pendingWrites = 0
    /\ textIn = <<>>
    /\ textOut = <<>>
    /\ pipeHtml \in SeqsUpTo(NodePool, MaxLen)
    /\ pipeOut = <<>>
    /\ elems = <<>>
    /\ pageList = <<>>
    /\ stage = "html"

\* lines 91-139: the walk over doc.body.children
PipeWalk ==
    /\ stage = "html"
    /\ pipeOut' = WithIds(WalkAll(pipeHtml), 0)
    /\ elems' = WithIds(WalkAll(pipeHtml), 0)
    /\ stage' = "walked"
    /\ UNCHANGED <<pipeHtml, pageList, textVars, appVars>>

\* lines 141-148
PipeNormalize ==
    /\ stage = "walked"
    /\ elems' = Cleaned(pipeOut)
    /\ stage' = "normalized"
    /\ UNCHANGED <<pipeHtml, pipeOut, pageList, textVars, appVars>>

\* splitElementsIntoPages on the list docxToElements returned
PipePaginate ==
    /\ stage = "normalized"
    /\ pageList' = splitElementsIntoPages(elems)
    /\ stage' = "paged"
    /\ UNCHANGED <<pipeHtml, pipeOut, elems, textVars, appVars>>

\* splitElementsIntoPages on a list that was not normalized
PipePaginateRaw ==
    /\ stage = "walked"
    /\ pageList' = splitElementsIntoPages(elems)
    /\ stage' = "pagedRaw"
    /\ UNCHANGED <<pipeHtml, pipeOut, elems, textVars, appVars>>

PipeNext ==
    \/ PipeWalk
    \/ PipeNormalize
    \/ PipePaginate
    \/ PipePaginateRaw

SpecPipeline == PipeInit /\ [][PipeNext]_vars

(***************************************************************************)
(* The text functions on their own.  splitIntoSentences is applied to      *)
(* every text of at most MaxText characters of TextChars.                  *)
(* looksLikeHeadingText is applied to texts described by a shape: an       *)
(* enumeration prefix or none, a run of capital letters, two spaces, a run *)
(* of small letters, and a closing full stop or none.                      *)
(***************************************************************************)
TextChars == {"a", ".", " ", "-", "=", ">", "5", "y"}

FunctionRunInit ==
    /\ documents = <<>>
    /\ currentDocId = NoDocId
    /\ highlightsByDoc = EmptyMap
    /\ tasks = <<>>
    /\ uidSeq = 0
    /\ lastOp = Op("init", <<>>)
    /\ copySuccess = FALSE
    /\ pendingWrites = 0
    /\ pipeHtml = <<>>
    /\ pipeOut = <<>>
    /\ elems = <<>>
    /\ pageList = <<>>
    /\ textOut = <<>>

SegmenterInit ==
    /\ FunctionRunInit
    /\ textIn \in SeqsUpTo(TextChars, MaxText)
    /\ stage = "text"

\* splitIntoSentences(el.text), lines 224 and 465
Segment ==
    /\ stage = "text"
    /\ textOut' = splitIntoSentences(textIn)
    /\ stage' = "segmented"
    /\ UNCHANGED <<textIn, pipeHtml, pipeOut, elems, pageList, appVars>>

SegmenterNext == Segment

SpecSegmenter == SegmenterInit /\ [][SegmenterNext]_vars

Repeat(c, n) == [i \in 1..n |-> c]

HeadingShapes ==
    {h \in [prefix : {"none", "digits", "roman"},
            caps : 0..MaxHeadingLetters,
            small : 0..MaxHeadingLetters,
            gap : BOOLEAN,
            stop : BOOLEAN] :
        /\ h.caps + h.small <= MaxHeadingLetters
        /\ h.gap => (h.caps > 0 /\ h.small > 0)}

\* the text of a shape
HeadingTextOf(h) ==
    (CASE h.prefix = "digits" -> <<"1", ")">>
       [] h.prefix = "roman" -> <<"I", ".">>
       [] OTHER -> <<>>)
    \o Repeat("A", h.caps)
    \o (IF h.gap THEN <<" ", " ">> ELSE <<>>)
    \o Repeat("a", h.small)
    \o (IF h.stop THEN <<".">> ELSE <<>>)

HeadingInit ==
    /\ FunctionRunInit
    /\ textIn \in HeadingShapes
    /\ stage = "headingText"

\* looksLikeHeadingText(t), line 120
JudgeHeading ==
    /\ stage = "headingText"
    /\ textOut' = looksLikeHeadingText(HeadingTextOf(textIn))
    /\ stage' = "headingJudged"
    /\ UNCHANGED <<textIn, pipeHtml, pipeOut, elems, pageList, appVars>>

HeadingNext == JudgeHeading

SpecHeading == HeadingInit /\ [][HeadingNext]_vars

(***************************************************************************)
(* The classifier on its own: walk applied to every p or div node, with    *)
(* or without a page-break style, whose innerHTML is a text of at most     *)
(* MaxBlockText characters of BlockChars.                                  *)
(***************************************************************************)
BlockChars == {"A", "a", " ", ".", "BULLET"}

BlockNodes ==
    {Node(tag, style, inner) :
        tag \in {"P", "DIV"},
        style \in {NoStyle, BreakStyle},
        inner \in SeqsUpTo(BlockChars, MaxBlockText)}

ClassifierInit ==
    /\ FunctionRunInit
    /\ textIn \in BlockNodes
    /\ stage = "node"

\* walk(node), line 139
ClassifyNode ==
    /\ stage = "node"
    /\ textOut' = walk(textIn)
    /\ stage' = "classified"
    /\ UNCHANGED <<textIn, pipeHtml, pipeOut, elems, pageList, appVars>>

ClassifierNext == ClassifyNode

SpecClassifier == ClassifierInit /\ [][ClassifierNext]_vars

(***************************************************************************)
(* The claims.                                                             *)
(***************************************************************************)
NonBreaks(es) == SelectSeq(es, LAMBDA e : e.type # "pageBreak")

HasDoubledBreak(es) ==
    \E i \in 1..(Len(es) - 1) : es[i].type = "pageBreak" /\ es[i + 1].type = "pageBreak"

EndsWithBreak(es) == Len(es) > 0 /\ Last(es).type = "pageBreak"

StartsWithBreak(es) == Len(es) > 0 /\ es[1].type = "pageBreak"

Paginated == stage \in {"paged", "pagedRaw"}

\* C1: in every reachable state, every entry of every annotation map has
\* hasHighlight exactly when its sentences list is non-empty.
C1_HighlightConsistency ==
    \A d \in DOMAIN highlightsByDoc :
        \A k \in DOMAIN highlightsByDoc[d] :
            highlightsByDoc[d][k].hasHighlight = (Len(highlightsByDoc[d][k].sentences) > 0)

\* a cell was just toggled in a map that holds a sentence entry toggled back
\* to empty and a selected entry
C1_Witness ==
    /\ lastOp.op = "handleCellClick"
    /\ \E d \in DOMAIN highlightsByDoc :
         \E k1, k2 \in DOMAIN highlightsByDoc[d] :
            /\ Len(k1) = 3
            /\ highlightsByDoc[d][k1] = NoEntry
            /\ Len(k2) > 3
            /\ highlightsByDoc[d][k2] = [sentences |-> <<0>>, hasHighlight |-> TRUE]

\* C2 (as claimed): when a readFiles call has ended, every file of its batch
\* whose read and conversion succeed is in the collection with the element
\* list docxToElements gives for it, and a file that failed has no entry.
C2_OnlyFailedFileDropped ==
    lastOp.op \in {"readFilesDone", "readFilesRejected"} =>
        \A k \in 1..Len(lastOp.arg) :
            LET f == Files[lastOp.arg[k]]
            IN  IF f.readable /\ f.valid
                THEN \E i \in 1..Len(documents) :
                        /\ documents[i].name = f.name
                        /\ documents[i].elements =
                               docxToElements(f.html, documents[i].id[2])
                ELSE \A i \in 1..Len(documents) : documents[i].name # f.name

\* C3: the pages returned by splitElementsIntoPages, concatenated in page
\* order, are the input list without its pageBreak elements.
C3_PageCoverage ==
    Paginated => Flatten(pageList) = NonBreaks(elems)

\* a list with a leading, a doubled and a trailing break was paginated into
\* several pages
C3_Witness ==
    /\ stage = "pagedRaw"
    /\ StartsWithBreak(elems)
    /\ HasDoubledBreak(elems)
    /\ EndsWithBreak(elems)
    /\ Len(pageList) >= 2

\* C4: the list docxToElements returns has no two consecutive pageBreak
\* elements, does not end with a pageBreak, and holds the other elements the
\* walk emitted, unchanged and in their order.
C4_NoAdjacentOrTrailingBreaks ==
    stage \in {"normalized", "paged"} =>
        /\ ~HasDoubledBreak(elems)
        /\ ~EndsWithBreak(elems)
        /\ NonBreaks(elems) = NonBreaks(pipeOut)

\* the walk emitted a doubled and a trailing break around content
C4_Witness ==
    /\ stage = "normalized"
    /\ HasDoubledBreak(pipeOut)
    /\ EndsWithBreak(pipeOut)
    /\ Len(elems) >= 3
    /\ \E i \in 1..Len(elems) : elems[i].type = "pageBreak"

\* C5 (as claimed): for every non-empty element list given to
\* splitElementsIntoPages, at least one page is returned.
C5_NonEmptyListHasPage ==
    (Paginated /\ Len(elems) > 0) => Len(pageList) >= 1

\* C5 (amended): a list that holds an element other than a pageBreak, and so
\* every non-empty list docxToElements returns, gives at least one page; a
\* non-empty list of pageBreak elements alone gives none.
C5_ContentHasPage ==
    /\ (Paginated /\ NonBreaks(elems) # <<>>) => Len(pageList) >= 1
    /\ (stage = "paged" /\ Len(elems) > 0) => Len(pageList) >= 1
    /\ (Paginated /\ NonBreaks(elems) = <<>>) => Len(pageList) = 0

\* a normalized list that starts with a break was paginated
C5_Witness ==
    /\ stage = "paged"
    /\ StartsWithBreak(elems)
    /\ Len(pageList) >= 1

\* C6: every page returned by splitElementsIntoPages is non-empty and holds
\* no pageBreak element, whatever breaks the list has.
C6_PagesNonEmptyWithoutBreaks ==
    Paginated =>
        \A p \in 1..Len(pageList) :
            /\ Len(pageList[p]) > 0
            /\ \A q \in 1..Len(pageList[p]) : pageList[p][q].type # "pageBreak"

\* a list with a doubled and a trailing break was paginated
C6_Witness ==
    /\ stage = "pagedRaw"
    /\ HasDoubledBreak(elems)
    /\ EndsWithBreak(elems)
    /\ Len(pageList) >= 1

\* the place of an element on the pages: page, then place in the page
PagePlace(pgs, id) ==
    CHOOSE pq \in {<<p, q>> : p \in 1..Len(pgs), q \in 1..MaxLen + Len(Flatten(pgs))} :
        /\ pq[2] <= Len(pgs[pq[1]])
        /\ pgs[pq[1]][pq[2]].id = id

PlaceBefore(a, b) == a[1] < b[1] \/ (a[1] = b[1] /\ a[2] < b[2])

\* the orders in which the indices of a list could have been toggled
Reorderings(nums) ==
    {p \in [1..Len(nums) -> Range(nums)] :
        \A v \in Range(nums) :
            Cardinality({i \in 1..Len(nums) : p[i] = v})
                = Cardinality({i \in 1..Len(nums) : nums[i] = v})}

\* the maps that hold the same selection set for every key as hl
SameSelections(hl) ==
    {h \in [DOMAIN hl ->
               UNION {{[sentences |-> p, hasHighlight |-> hl[k].hasHighlight] :
                          p \in Reorderings(hl[k].sentences)} : k \in DOMAIN hl}] :
        \A k \in DOMAIN hl : Range(h[k].sentences) = Range(hl[k].sentences)}

\* hl without the entries whose selection is empty
WithoutEmptyEntries(hl) ==
    [k \in {x \in DOMAIN hl : hl[x].sentences # <<>>} |-> hl[k]]

\* C7: the export entries are in document order (page, then place in the
\* page, of the element each comes from), and every map with the same
\* selection sets, whatever the order of the toggles that built it, gives
\* the same export.
C7_ExportOrder ==
    HasCurrentDoc =>
        LET items == ExportItems(pages, highlights)
        IN  /\ \A a, b \in 1..Len(items) :
                 a < b => PlaceBefore(PagePlace(pages, items[a].from),
                                      PagePlace(pages, items[b].from))
            /\ \A h \in SameSelections(highlights) :
                 /\ ExportItems(pages, h) = items
                 /\ ExportItems(pages, WithoutEmptyEntries(h)) = items

\* two elements on different pages are exported, the second sentence of one
\* toggled before its first
C7_Witness ==
    /\ HasCurrentDoc
    /\ Len(getAllHighlightedText) = 2
    /\ \E k \in DOMAIN highlights : highlights[k].sentences = <<1, 0>>
    /\ lastOp.op = "handleSentenceClick"

AnnotationOps == {"handleSentenceClick", "handleCellClick", "clearHighlights"}

\* C8: a step of handleSentenceClick, handleCellClick or clearHighlights
\* leaves the annotation map of every document other than the current one
\* as it was (present and equal, or absent).
C8_OtherDocsUnchanged ==
    [][ lastOp'.op \in AnnotationOps =>
          \A d \in (DocIds(documents) \cup (DOMAIN highlightsByDoc)
                        \cup (DOMAIN highlightsByDoc')) \ {currentDocId} :
              /\ (d \in DOMAIN highlightsByDoc') = (d \in DOMAIN highlightsByDoc)
              /\ d \in DOMAIN highlightsByDoc => highlightsByDoc'[d] = highlightsByDoc[d]
      ]_vars

\* a sentence was toggled in the current document while another document
\* is in the collection
C8_Witness ==
    /\ lastOp.op = "handleSentenceClick"
    /\ Len(documents) >= 2
    /\ HasCurrentDoc
    /\ currentDocId \in DOMAIN highlightsByDoc
    /\ highlightsByDoc[currentDocId] # EmptyMap

\* C9: a step in which a document leaves the collection is a step in which
\* its annotation map is deleted, and the reverse; the document that leaves
\* is the current one, and the other documents and their maps stay as they
\* were.
C9_RemoveIsAtomic ==
    [][ \A d \in DocIds(documents) \cup (DOMAIN highlightsByDoc) :
          /\ (d \in DocIds(documents) /\ d \notin DocIds(documents')) =>
                /\ d = currentDocId
                /\ d \notin DOMAIN highlightsByDoc'
                /\ documents' = SelectSeq(documents, LAMBDA x : x.id # d)
                /\ \A e \in (DOMAIN highlightsByDoc) \ {d} :
                      /\ e \in DOMAIN highlightsByDoc'
                      /\ highlightsByDoc'[e] = highlightsByDoc[e]
                /\ (DOMAIN highlightsByDoc') \subseteq (DOMAIN highlightsByDoc)
          /\ (d \in DOMAIN highlightsByDoc /\ d \notin DOMAIN highlightsByDoc') =>
                d \notin DocIds(documents')
      ]_vars

\* the current document was removed together with its map, and another
\* document remains
C9_Witness ==
    /\ lastOp.op = "removeCurrentDoc"
    /\ lastOp.arg[2]
    /\ lastOp.arg[1] \notin DocIds(documents)
    /\ lastOp.arg[1] \notin DOMAIN highlightsByDoc
    /\ Len(documents) >= 1

\* C10: a step of handleSentenceClick(elementId, i) flips the membership of
\* i in the selection set of elementId (empty when the map has no entry for
\* it), and leaves the other entries as they were; a second such step for the
\* same elementId and i, right after the first, restores the selection set
\* and hasHighlight the entry had before the first.
C10_ToggleSentence ==
    [][ (HasCurrentDoc /\ lastOp'.op = "handleSentenceClick") =>
          LET k == lastOp'.arg[1]
              i == lastOp'.arg[2]
              before == MapOf(highlightsByDoc, currentDocId)
              after == MapOf(highlightsByDoc', currentDocId)
              old == IF k \in DOMAIN before THEN Range(before[k].sentences) ELSE {}
          IN  /\ k \in DOMAIN after
              /\ Range(after[k].sentences) = IF i \in old THEN old \ {i} ELSE old \cup {i}
              /\ DOMAIN after = (DOMAIN before) \cup {k}
              /\ \A k2 \in (DOMAIN before) \ {k} : after[k2] = before[k2]
              /\ (/\ lastOp.op = "handleSentenceClick"
                  /\ lastOp.arg[1] = k
                  /\ lastOp.arg[2] = i) =>
                    /\ Range(after[k].sentences) = Range(lastOp.arg[3].sentences)
                    /\ after[k].hasHighlight = lastOp.arg[3].hasHighlight
      ]_vars

\* index 0 of an element with no entry was toggled twice in a row: the entry
\* is back to no sentences and hasHighlight false
C10_Witness ==
    /\ lastOp.op = "handleSentenceClick"
    /\ lastOp.arg[2] = 0
    /\ lastOp.arg[3] = [sentences |-> <<0>>, hasHighlight |-> TRUE]
    /\ HasCurrentDoc
    /\ DOMAIN highlights = {lastOp.arg[1]}
    /\ highlights[lastOp.arg[1]] = NoEntry

HandlersOfCurrentDoc ==
    {"handleSentenceClick", "handleCellClick", "clearHighlights", "removeCurrentDoc"}

Selected == [sentences |-> <<0>>, hasHighlight |-> TRUE]

\* C11: a step of handleCellClick(elementId, row, col) on the current document
\* writes the entry of the key elementId_r<row>_c<col> of a rendered cell and
\* no other: an unselected cell (no entry, or no sentences and hasHighlight
\* false) gets sentences [0] and hasHighlight true, a selected one gets no
\* sentences and hasHighlight false, so that the entry follows the parity of
\* the number of toggles of the cell; every other entry stays as it was.
C11_ToggleCell ==
    [][ (HasCurrentDoc /\ lastOp'.op = "handleCellClick") =>
          LET k == lastOp'.arg[1]
              before == MapOf(highlightsByDoc, currentDocId)
              after == MapOf(highlightsByDoc', currentDocId)
              wasSelected == k \in DOMAIN before /\ before[k] = Selected
          IN  /\ Len(k) = 7
              /\ \E el \in TablesOf(CurrentDoc) :
                    /\ SubSeq(k, 1, 3) = el.id
                    /\ k[4] = "_r" /\ k[5] + 1 \in 1..Len(el.data)
                    /\ k[6] = "_c" /\ k[7] + 1 \in 1..Len(el.data[k[5] + 1])
              /\ k \in DOMAIN before => before[k] \in {NoEntry, Selected}
              /\ k \in DOMAIN after
              /\ after[k] = IF wasSelected THEN NoEntry ELSE Selected
              /\ DOMAIN after = (DOMAIN before) \cup {k}
              /\ \A k2 \in (DOMAIN before) \ {k} : after[k2] = before[k2]
      ]_vars

\* a cell was toggled an even number of times (its entry is back to no
\* sentences) beside a cell toggled once and a sentence entry
C11_Witness ==
    /\ lastOp.op = "handleCellClick"
    /\ HasCurrentDoc
    /\ lastOp.arg[1] \in DOMAIN highlights
    /\ highlights[lastOp.arg[1]] = NoEntry
    /\ \E k2 \in DOMAIN highlights : Len(k2) = 7 /\ highlights[k2] = Selected
    /\ \E k3 \in DOMAIN highlights : Len(k3) = 3 /\ highlights[k3].hasHighlight

\* C12: after clearHighlights on the current document, the document's
\* annotation map is empty: no element id and no cell key has an entry, and
\* getAllHighlightedText returns nothing.
C12_ClearAll ==
    (lastOp.op = "clearHighlights" /\ lastOp.arg[1] # NoDocId) =>
        /\ HasCurrentDoc
        /\ currentDocId = lastOp.arg[1]
        /\ currentDocId \in DOMAIN highlightsByDoc
        /\ DOMAIN highlightsByDoc[currentDocId] = {}
        /\ \A el \in ParagraphLikes(CurrentDoc) : el.id \notin DOMAIN highlights
        /\ \A el \in TablesOf(CurrentDoc) :
              \A r \in 1..Len(el.data) : \A c \in 1..Len(el.data[r]) :
                  CellKey(el.id, r - 1, c - 1) \notin DOMAIN highlights
        /\ getAllHighlightedText = <<>>

\* the map that was cleared held a cell entry and a sentence entry, and the
\* export was not empty
C12_Witness ==
    /\ lastOp.op = "clearHighlights"
    /\ lastOp.arg[1] # NoDocId
    /\ lastOp.arg[2] >= 2
    /\ lastOp.arg[3] >= 1
    /\ \E el \in TablesOf(CurrentDoc) : TRUE

\* C13: a step of handleSentenceClick, handleCellClick, clearHighlights or
\* removeCurrentDoc taken while no document is selected leaves documents,
\* highlightsByDoc and currentDocId as they were.
C13_NoDocNoOp ==
    [][ (~HasCurrentDoc /\ lastOp'.op \in HandlersOfCurrentDoc) =>
            /\ documents' = documents
            /\ highlightsByDoc' = highlightsByDoc
            /\ currentDocId' = currentDocId
      ]_vars

\* clearHighlights was called while the collection held a document and none
\* was selected
C13_Witness ==
    /\ lastOp.op = "clearHighlights"
    /\ lastOp.arg[1] = NoDocId
    /\ ~HasCurrentDoc
    /\ Len(documents) > 0

\* C14: in the state a step of handleCellClick leads to, getAllHighlightedText
\* returns what it returned before the step; and in every state each export
\* entry is assembled from a paragraph or a checkbox element of the current
\* document, never from a table or a cell key.
C14_CellsNotExported ==
    /\ (HasCurrentDoc /\ lastOp.op = "handleCellClick") =>
           getAllHighlightedText = lastOp.arg[2]
    /\ HasCurrentDoc =>
           \A k \in 1..Len(ExportItems(pages, highlights)) :
               \E el \in ParagraphLikes(CurrentDoc) :
                   el.id = ExportItems(pages, highlights)[k].from

\* a cell was just selected in a document whose export is not empty
C14_Witness ==
    /\ lastOp.op = "handleCellClick"
    /\ HasCurrentDoc
    /\ lastOp.arg[1] \in DOMAIN highlights
    /\ highlights[lastOp.arg[1]] = Selected
    /\ getAllHighlightedText # <<>>

\* C15: getAllHighlightedText has one entry for each paragraph or checkbox
\* element of the current document, in document order, whose entry has
\* hasHighlight true and whose selected sentences give a non-empty text; the
\* entry is the selected sentences in ascending index order, stripped of
\* markup, joined by one space; no other element adds an entry.
C15_OneEntryPerElement ==
    HasCurrentDoc =>
        LET flat == Flatten(pages)
            Sel(el) == IF el.id \in DOMAIN highlights /\ highlights[el.id].hasHighlight
                       THEN Range(highlights[el.id].sentences)
                       ELSE {}
            Sents(el) == splitIntoSentences(el.text)
            Asc(el) == SelectSeq([i \in 1..Len(Sents(el)) |-> i - 1],
                                 LAMBDA i : i \in Sel(el))
            Joined(el) ==
                Trim(CollapseWs(JoinWithSpace(
                    [k \in 1..Len(Asc(el)) |-> StripTags(Sents(el)[Asc(el)[k] + 1])])))
            Contributes(el) ==
                /\ el.type \in {"paragraph", "checkbox"}
                /\ Asc(el) # <<>>
                /\ Joined(el) # <<>>
            contributors == SelectSeq(flat, Contributes)
        IN  getAllHighlightedText = [k \in 1..Len(contributors) |-> Joined(contributors[k])]

\* two sentences of one element, toggled last-first, make one entry, and an
\* element whose only sentence was toggled back makes none
C15_Witness ==
    /\ HasCurrentDoc
    /\ Len(getAllHighlightedText) = 1
    /\ \E k \in DOMAIN highlights : highlights[k].sentences = <<1, 0>>
    /\ \E k \in DOMAIN highlights : Len(k) = 3 /\ highlights[k] = NoEntry

\* C16: the step that ends a readFiles call puts the documents of the call's
\* accepted files behind the documents already in the collection, which keep
\* their positions, in the order of the files; the accepted files are the
\* .docx files of the call in the order they were given.
C16_AppendInInputOrder ==
    [][ /\ (lastOp'.op = "readFilesDone") =>
              /\ Len(documents') = Len(documents) + Len(lastOp'.arg)
              /\ SubSeq(documents', 1, Len(documents)) = documents
              /\ \A k \in 1..Len(lastOp'.arg) :
                    documents'[Len(documents) + k].name = Files[lastOp'.arg[k]].name
        /\ (lastOp'.op = "readFiles" /\ tasks' # tasks) =>
              /\ Len(tasks') = Len(tasks) + 1
              /\ Last(tasks').files =
                    SelectSeq(lastOp'.arg, LAMBDA f : IsDocxName(Files[f].name))
      ]_vars

\* a call ended while the collection already held a document
C16_Witness ==
    /\ lastOp.op = "readFilesDone"
    /\ Len(lastOp.arg) = 1
    /\ Len(documents) = 2
    /\ documents[2].name = Files[lastOp.arg[1]].name
    /\ documents[1].name # documents[2].name

\* C17 (as claimed): in no reachable state are two files being read or
\* converted at the same time, a second file selection or drop made while
\* an earlier one is suspended included.
C17_OneFileAtATime == Len(tasks) <= 1


\* C18: the step in which the clipboard write of exportHighlights fails
\* leaves documents, currentDocId, highlightsByDoc and copySuccess as they
\* were.
C18_ClipboardFailure ==
    [][ (lastOp'.op = "clipboardRejected") =>
            /\ documents' = documents
            /\ currentDocId' = currentDocId
            /\ highlightsByDoc' = highlightsByDoc
            /\ copySuccess' = copySuccess
      ]_vars

\* a write failed while the document had annotations and no confirmation
\* was showing
C18_Witness ==
    /\ lastOp.op = "clipboardRejected"
    /\ HasCurrentDoc
    /\ getAllHighlightedText # <<>>
    /\ ~copySuccess

\* the length of the text of a heading shape after whitespace normalization
ShapeLen(h) ==
    (IF h.prefix = "none" THEN 0 ELSE 2) + h.caps + (IF h.gap THEN 1 ELSE 0)
    + h.small + (IF h.stop THEN 1 ELSE 0)

\* the number of capital letters of the text of a shape (the I of a roman
\* prefix is one)
ShapeCaps(h) == h.caps + (IF h.prefix = "roman" THEN 1 ELSE 0)

\* the text of the shape ends in sentence punctuation
ShapeEndsInStop(h) == h.stop \/ (h.prefix = "roman" /\ h.caps + h.small = 0)

\* C19 (as claimed): a text of 1 to 70 characters and more looks like a
\* heading exactly when it is at most 70 characters long, does not end in
\* sentence punctuation, and has at least min(6, 40% of its length) capital
\* letters or an enumeration prefix.
C19_HeadingRule ==
    (stage = "headingJudged" /\ ShapeLen(textIn) >= 1) =>
        (textOut <=>
            /\ ShapeLen(textIn) <= 70
            /\ ~ShapeEndsInStop(textIn)
            /\ \/ ShapeCaps(textIn) >= 6
               \/ 10 * ShapeCaps(textIn) >= 4 * ShapeLen(textIn)
               \/ textIn.prefix # "none")

\* C19 (amended): a text looks like a heading exactly when it is 3 to 70
\* characters long, does not end in sentence punctuation, and has at least
\* min(6, 40% of its length rounded down) capital letters or an enumeration
\* prefix.
C19_HeadingRuleFloor ==
    (stage = "headingJudged") =>
        (textOut <=>
            /\ ShapeLen(textIn) >= 3
            /\ ShapeLen(textIn) <= 70
            /\ ~ShapeEndsInStop(textIn)
            /\ \/ ShapeCaps(textIn) >= 6
               \/ ShapeCaps(textIn) >= (4 * ShapeLen(textIn)) \div 10
               \/ textIn.prefix # "none")

\* a text of 70 characters with 6 capital letters, normalized from 71, was
\* found to look like a heading
C19_Witness ==
    /\ stage = "headingJudged"
    /\ textIn = [prefix |-> "none", caps |-> 6, small |-> 63, gap |-> TRUE, stop |-> FALSE]
    /\ textOut = TRUE

\* the characters of a trimmed text that belong to a separator: whitespace
\* reached from a sentence terminator through whitespace only
SeparatorAt(t, i) ==
    /\ t[i] \in {" ", "NL", "TAB"}
    /\ \E a \in 2..i :
          /\ t[a - 1] \in {".", "!", "?", "ELLIPSIS"}
          /\ \A m \in a..i : t[m] \in {" ", "NL", "TAB"}

\* the fragments of a trimmed text: its maximal runs of characters that
\* belong to no separator, in order
FragmentsOf(t) ==
    LET starts == {i \in 1..Len(t) :
                      ~SeparatorAt(t, i) /\ (i = 1 \/ SeparatorAt(t, i - 1))}
        EndOf(b) == SetMax({e \in b..Len(t) : \A m \in b..e : ~SeparatorAt(t, m)})
        Nth(k) == CHOOSE b \in starts : Cardinality({x \in starts : x < b}) = k - 1
    IN  [k \in 1..Cardinality(starts) |-> SubSeq(t, Nth(k), EndOf(Nth(k)))]

\* C20: splitIntoSentences returns no sentence for an empty or
\* whitespace-only text; otherwise it cuts the trimmed text at each run of
\* whitespace that follows a terminator and precedes a character, so that a
\* fragment that is cut off ends in its terminator, drops the fragments that
\* are one bracket, dash or colon, and returns transformText of each
\* remaining fragment, in order: as many sentences as fragments kept.
C20_Segmenter ==
    (stage = "segmented") =>
        LET t == Trim(textIn)
            frags == FragmentsOf(t)
            kept == SelectSeq(frags,
                       LAMBDA f : ~(Len(f) = 1 /\ f[1] \in {"(", ")", "[", "]", "{", "}",
                                                           "-", "EN_DASH", "EM_DASH", ":"}))
        IN  /\ (t = <<>>) => (textOut = <<>>)
            /\ \A k \in 1..(Len(frags) - 1) : Last(frags[k]) \in {".", "!", "?", "ELLIPSIS"}
            /\ Len(textOut) = Len(kept)
            /\ \A k \in 1..Len(kept) : textOut[k] = transformText(kept[k])

\* "=>. a" was cut into two sentences, the first with its arrow decorated
C20_Witness ==
    /\ stage = "segmented"
    /\ textIn = <<"=", ">", ".", " ", "a">>
    /\ textOut = << Span("GEM") \o <<".">>, <<"a">> >>

\* the text of a node's innerHTML after whitespace normalization, for
\* texts without markup
NormalizedText(inner) ==
    LET words == SelectSeq([i \in 1..Len(inner) |->
                              IF inner[i] \in {" ", "NL", "TAB"}
                                 /\ (i = 1 \/ inner[i - 1] \in {" ", "NL", "TAB"})
                              THEN "" ELSE inner[i]],
                           LAMBDA c : c # "")
    IN  IF words # <<>> /\ Last(words) \in {" ", "NL", "TAB"}
        THEN SubSeq(words, 1, Len(words) - 1)
        ELSE words

\* C21: for a p or div node, walk emits no content element when the plain
\* text is empty or whitespace only, and otherwise exactly one: a level 2
\* heading if the text looks like a heading, else a checkbox if the text
\* starts with a checkbox glyph, else a paragraph.
C21_ClassifierPriority ==
    (stage = "classified") =>
        LET t == NormalizedText(textIn.inner)
            content == SelectSeq(textOut, LAMBDA e : e.type # "pageBreak")
        IN  IF t = <<>> THEN content = <<>>
            ELSE /\ Len(content) = 1
                 /\ IF looksLikeHeadingText(t)
                    THEN content[1].type = "heading" /\ content[1].level = 2
                    ELSE IF t[1] \in {"BALLOT_BOX", "BALLOT_CHECKED", "WHITE_SQUARE",
                                      "CHECK_MARK", "BULLET"}
                         THEN content[1].type = "checkbox"
                         ELSE content[1].type = "paragraph"

\* a text that starts with a checkbox glyph and looks like a heading was
\* made a level 2 heading, behind a page break
C21_Witness ==
    /\ stage = "classified"
    /\ textIn.inner = <<"BULLET", "A", "A">>
    /\ Len(textOut) = 2
    /\ textOut[1].type = "pageBreak"
    /\ textOut[2].type = "heading"

\* the file name ends in .docx, in any letter case
EndsInDocx(f) == Last(Files[f].name) \in {".docx", ".DOCX", ".Docx"}

\* C22: a readFiles call with no file, or with no file whose name ends in
\* .docx in any letter case, ends before any read or conversion: it starts
\* no suspended call and leaves documents, currentDocId and highlightsByDoc
\* as they were; and no suspended call ever holds, reads or converts a file
\* whose name does not end in .docx.
C22_ExtensionFilter ==
    [][ /\ (lastOp'.op = "readFiles"
            /\ \A k \in 1..Len(lastOp'.arg) : ~EndsInDocx(lastOp'.arg[k])) =>
               /\ tasks' = tasks
               /\ uidSeq' = uidSeq
               /\ documents' = documents
               /\ currentDocId' = currentDocId
               /\ highlightsByDoc' = highlightsByDoc
        /\ \A k \in 1..Len(tasks') :
               \A j \in 1..Len(tasks'[k].files) : EndsInDocx(tasks'[k].files[j])
        /\ (lastOp'.op \in {"arrayBuffer", "convertToHtml"}) => EndsInDocx(lastOp'.arg)
      ]_vars

\* a call with only a .txt file ended at once while a document with
\* annotations was open
C22_Witness ==
    /\ lastOp.op = "readFiles"
    /\ lastOp.arg = <<"E">>
    /\ tasks = <<>>
    /\ HasCurrentDoc
    /\ highlights # EmptyMap

\* C23: in every reachable state, every document id that has an annotation
\* map in highlightsByDoc is the id of a document in the collection.
C23_MapsBelongToDocuments ==
    \A d \in DOMAIN highlightsByDoc : \E i \in 1..Len(documents) : documents[i].id = d

\* the first document was removed and the second, selected afterwards, has
\* annotations
C23_Witness ==
    /\ uidSeq = 2
    /\ Len(documents) = 1
    /\ DOMAIN highlightsByDoc = {documents[1].id}
    /\ highlightsByDoc[documents[1].id] # EmptyMap
    /\ documents[1].id = uid("doc", 2, 0)

\* C24: in every reachable state currentDocId is null or the id of a
\* document in the collection, and in the state removeCurrentDoc leads to
\* it is null.
C24_SelectionIsValid ==
    /\ currentDocId = NoDocId \/ \E i \in 1..Len(documents) : documents[i].id = currentDocId
    /\ (lastOp.op = "removeCurrentDoc") => currentDocId = NoDocId

\* the selected document, which had no annotation map, was removed and
\* another document remains, with no selection
C24_Witness ==
    /\ lastOp.op = "removeCurrentDoc"
    /\ lastOp.arg[1] # NoDocId
    /\ ~lastOp.arg[2]
    /\ Len(documents) >= 1
    /\ currentDocId = NoDocId

\* C25: the step that ends a readFiles call keeps currentDocId when it is
\* not null and otherwise sets it to the first document of the call; the
\* collection grows in that step only, by all the documents of the call at
\* once, and no document of a call that is still suspended is in it.
C25_BatchCompletion ==
    [][ /\ (lastOp'.op = "readFilesDone") =>
               /\ Len(documents') = Len(documents) + Len(lastOp'.arg)
               /\ currentDocId' = IF currentDocId # NoDocId THEN currentDocId
                                  ELSE documents'[Len(documents) + 1].id
        /\ (Len(documents') > Len(documents)) => lastOp'.op = "readFilesDone"
        /\ \A k \in 1..Len(tasks') :
               \A j \in 1..Len(tasks'[k].parsedDocs) :
                   \A i \in 1..Len(documents') :
                       documents'[i].id # tasks'[k].parsedDocs[j].id
      ]_vars

\* a call ended after the document that was selected had been removed: its
\* document, the only one left, is selected
C25_Witness ==
    /\ lastOp.op = "readFilesDone"
    /\ uidSeq = 2
    /\ Len(documents) = 1
    /\ documents[1].id = uid("doc", 2, 0)
    /\ currentDocId = documents[1].id

\* C26: in every reachable state the sentences list of every entry of every
\* annotation map holds no index twice, and the indices the export picks the
\* sentences of an element by, once sorted, are strictly increasing, so that
\* no sentence is picked twice for one export entry.
C26_NoDuplicateIndices ==
    /\ \A d \in DOMAIN highlightsByDoc :
           \A k \in DOMAIN highlightsByDoc[d] :
               LET ss == highlightsByDoc[d][k].sentences
               IN  \A i, j \in 1..Len(ss) : (i # j) => (ss[i] # ss[j])
    /\ HasCurrentDoc =>
           \A el \in Range(Flatten(pages)) :
               (el.id \in DOMAIN highlights) =>
                   LET sorted == SortAscending(highlights[el.id].sentences)
                   IN  \A i \in 1..(Len(sorted) - 1) : sorted[i] < sorted[i + 1]

\* index 0 was toggled onto an entry that already held index 1
C26_Witness ==
    /\ lastOp.op = "handleSentenceClick"
    /\ HasCurrentDoc
    /\ lastOp.arg[2] = 0
    /\ lastOp.arg[3].sentences = <<1>>
    /\ highlights[lastOp.arg[1]].sentences = <<1, 0>>

====
